---- MODULE Spec2Model ----
(***************************************************************************)
(* ShadowDrop / SecureHide: LSB steganography of a Fernet token.           *)
(*                                                                         *)
(* The model follows backend/app/main.py (hide_message, extract_message,   *)
(* generate_key, bytes_to_bin, bin_to_bytes); frontend/src/stego.py holds  *)
(* the same codec line for line.  A request handler is a sequence of steps *)
(* (pc); the two pixel loops advance one iteration per step.               *)
(*                                                                         *)
(* The cryptography library is outside the repository.  It is modelled as  *)
(* an ideal authenticated cipher with the two properties the handlers rely *)
(* on: a token is text over a URL-safe alphabet, so no token octet is 0,   *)
(* and a token verifies only under the key that produced it.               *)
(***************************************************************************)
EXTENDS Integers, Sequences, FiniteSets, TLC

VARIABLES
    carrier,          \* the uploaded cover image, decoded to RGB (never mutated)
    handler,          \* "none" | "hide" | "extract": the request being served
    pc,               \* position inside the handler
    message,          \* hide_message: form field, a sequence of code points
    password,         \* hide_message: form field
    width, height,    \* img.size of the image the current handler opened
    pixels,           \* img.load() of the current handler
    encrypted,        \* hide_message: the Fernet token
    encrypted_bin,    \* hide_message: the bit string that is embedded
    idx, x, y,        \* loop counters of the current handler
    output,           \* hide_message: the PNG that is streamed back
    source,           \* extract_message: which image was uploaded
    ex_password,      \* extract_message: form field `password`
    bits,             \* extract_message: the collected LSB string
    nreads,           \* extract_message: pixels read so far
    encrypted_bytes,  \* extract_message: bin_to_bytes(bits)
    response          \* the HTTP response of the current handler

vars == <<carrier, handler, pc, message, password, width, height, pixels,
          encrypted, encrypted_bin, idx, x, y, output, source, ex_password,
          bits, nreads, encrypted_bytes, response>>

hide_vars == <<message, password, encrypted, encrypted_bin, output>>
extract_vars == <<source, ex_password, bits, nreads, encrypted_bytes>>

----------------------------------------------------------------------------
(* Bounds of the model *)

MaxW == 5
MaxH == 4
MaxMsgLen == 2
MaxDataLen == 2
MaxTailLen == 3

(* Program constants *)

MinPasswordLen == 6
ByteBits == 8
Channels == 3

----------------------------------------------------------------------------
(* Python values *)

Ok(v) == [ok |-> TRUE, val |-> v]
Raised == [ok |-> FALSE, val |-> <<>>]

Min(a, b) == IF a < b THEN a ELSE b

Front(s) == SubSeq(s, 1, Len(s) - 1)
Last(s) == s[Len(s)]

RECURSIVE SumSeq(_)
SumSeq(s) == IF s = <<>> THEN 0 ELSE s[1] + SumSeq(Tail(s))

RECURSIVE SeqsUpTo(_, _)
SeqsUpTo(S, n) ==
    IF n = 0 THEN {<<>>}
    ELSE LET shorter == SeqsUpTo(S, n - 1)
         IN  shorter \cup {Append(s, e) : s \in {t \in shorter : Len(t) = n - 1}, e \in S}

(* str.encode() / bytes.decode(): UTF-8, for code points below 2048 *)
utf8_char(c) == IF c < 128 THEN <<c>> ELSE <<192 + (c \div 64), 128 + (c % 64)>>

RECURSIVE encode(_)
encode(s) == IF s = <<>> THEN <<>> ELSE utf8_char(s[1]) \o encode(Tail(s))

RECURSIVE decode(_)
decode(b) ==
    IF b = <<>> THEN Ok(<<>>)
    ELSE IF b[1] < 128
         THEN LET rest == decode(Tail(b))
              IN  IF rest.ok THEN Ok(<<b[1]>> \o rest.val) ELSE Raised
    ELSE IF b[1] \in 194..223 /\ Len(b) >= 2 /\ b[2] \in 128..191
         THEN LET rest == decode(SubSeq(b, 3, Len(b)))
              IN  IF rest.ok
                  THEN Ok(<<(b[1] - 192) * 64 + (b[2] - 128)>> \o rest.val)
                  ELSE Raised
    ELSE Raised

----------------------------------------------------------------------------
(* generate_key: urlsafe_b64encode(sha256(password.encode()).digest()).     *)
(* The digest is modelled as a hash that is collision free on the          *)
(* passwords of the model (see Passwords); the base64 step is a recoding.  *)

RECURSIVE sha256(_)
sha256(data) == IF data = <<>> THEN 5
                ELSE (sha256(Front(data)) * 31 + Last(data)) % 251

(* faulty variant: the key does not depend on the password *)
generate_key_constant(pw) == sha256(<<>>)

generate_key(pw) == sha256(encode(pw))

(* Fernet(key).encrypt / .decrypt                                          *)
(* token = iv, keyed substitution of the plaintext, tag; every octet of it *)
(* lies in 1..255.  The tag is injective in the key for a fixed (iv, ct).  *)

IVs == {1, 2}

hmac(key, iv, ct) == ((key + 3 * iv + SumSeq(ct)) % 251) + 1

fernet_encrypt(key, iv, data) ==
    LET ct == [i \in 1..Len(data) |-> ((data[i] + key + iv) % 255) + 1]
    IN  <<iv>> \o ct \o <<hmac(key, iv, ct)>>

fernet_decrypt(key, token) ==
    IF Len(token) < 2 THEN Raised
    ELSE LET iv == token[1]
             ct == SubSeq(token, 2, Len(token) - 1)
             tag == token[Len(token)]
         IN  IF tag # hmac(key, iv, ct) THEN Raised
             ELSE Ok([i \in 1..Len(ct) |-> (ct[i] - 1 + 3 * 255 - key - iv) % 255])

----------------------------------------------------------------------------
(* bytes_to_bin / bin_to_bytes *)

(* faulty variant: least significant bit first *)
format_08b_lsb_first(byte) ==
    << byte % 2,            (byte \div 2) % 2,  (byte \div 4) % 2,
       (byte \div 8) % 2,   (byte \div 16) % 2, (byte \div 32) % 2,
       (byte \div 64) % 2,  (byte \div 128) % 2 >>

format_08b(byte) ==
    << (byte \div 128) % 2, (byte \div 64) % 2, (byte \div 32) % 2,
       (byte \div 16) % 2,  (byte \div 8) % 2,  (byte \div 4) % 2,
       (byte \div 2) % 2,   byte % 2 >>

RECURSIVE bytes_to_bin(_)
bytes_to_bin(data) ==
    IF data = <<>> THEN <<>> ELSE format_08b(data[1]) \o bytes_to_bin(Tail(data))

Zero8 == <<0, 0, 0, 0, 0, 0, 0, 0>>

(* int(byte, 2): raises ValueError on the empty string *)
RECURSIVE int_base2(_)
int_base2(s) == IF s = <<>> THEN 0 ELSE 2 * int_base2(Front(s)) + Last(s)

(* faulty variant: a zero octet is skipped (continue) instead of ending the loop *)
RECURSIVE bin_to_bytes_skip_zero(_, _)
bin_to_bytes_skip_zero(binary, i) ==
    IF i >= Len(binary) THEN Ok(<<>>)
    ELSE LET byte == SubSeq(binary, i + 1, Min(i + ByteBits, Len(binary)))
             rest == bin_to_bytes_skip_zero(binary, i + ByteBits)
         IN  IF byte = Zero8 THEN rest
             ELSE Ok(<<int_base2(byte)>> \o rest.val)

(* faulty variant: a strict conversion that raises on a chunk shorter than 8 bits *)
RECURSIVE bin_to_bytes_strict(_, _)
bin_to_bytes_strict(binary, i) ==
    IF i >= Len(binary) THEN Ok(<<>>)
    ELSE IF i + ByteBits > Len(binary) THEN Raised
    ELSE LET byte == SubSeq(binary, i + 1, i + ByteBits)
         IN  IF byte = Zero8 THEN Ok(<<>>)
             ELSE LET rest == bin_to_bytes_strict(binary, i + ByteBits)
                  IN  IF rest.ok THEN Ok(<<int_base2(byte)>> \o rest.val)
                      ELSE Raised

(* the loop of bin_to_bytes from offset i: binary[i:i+8] is shorter than 8 *)
(* only for the last chunk, and never empty                                *)
RECURSIVE bin_to_bytes_from(_, _)
bin_to_bytes_from(binary, i) ==
    IF i >= Len(binary) THEN Ok(<<>>)
    ELSE LET byte == SubSeq(binary, i + 1, Min(i + ByteBits, Len(binary)))
         IN  IF byte = Zero8 THEN Ok(<<>>)
             ELSE LET rest == bin_to_bytes_from(binary, i + ByteBits)
                  IN  IF rest.ok THEN Ok(<<int_base2(byte)>> \o rest.val)
                      ELSE Raised

bin_to_bytes(binary) == bin_to_bytes_from(binary, 0)

----------------------------------------------------------------------------
(* Images: Image.open(...).convert("RGB"), img.load(), img.size *)

LargeDims == {<<8, 7>>}
Dims == ((1..MaxW) \X (1..MaxH)) \cup LargeDims

(* Cover images: plain white, plain black, noise, and two images made by   *)
(* another tool whose LSBs spell a Fernet token of TokenPassword (of the   *)
(* text "H", and of the octet 0xC3, which is not UTF-8) with zero LSBs     *)
(* behind it.                                                              *)
CarrierKinds == {"white", "black", "noise", "token", "token_not_text"}

Noise == <<13, 200, 7, 54, 91, 128, 255, 2, 77, 30, 165, 240, 19, 101, 64, 222, 9>>

TokenPassword == <<115, 101, 99, 114, 101, 116>>
TokenBits(data) == bytes_to_bin(fernet_encrypt(generate_key(TokenPassword), 1, data))

lsb_of(bin, i) == IF i < Len(bin) THEN bin[i + 1] ELSE 0

channel_value(kind, i) ==
    CASE kind = "white" -> 255
      [] kind = "black" -> 0
      [] kind = "token" -> 254 + lsb_of(TokenBits(<<72>>), i)
      [] kind = "token_not_text" -> 100 + lsb_of(TokenBits(<<195>>), i)
      [] OTHER -> Noise[(i % Len(Noise)) + 1]

Image(kind, w, h) ==
    [size |-> <<w, h>>,
     px   |-> [p \in (0..(w - 1)) \X (0..(h - 1)) |->
                 LET i == Channels * (p[2] * w + p[1])
                 IN  <<channel_value(kind, i), channel_value(kind, i + 1),
                       channel_value(kind, i + 2)>>]]

Carriers == {Image(k, d[1], d[2]) : k \in CarrierKinds, d \in Dims}

NoImage == [size |-> <<0, 0>>, px |-> <<>>]

(* Form fields *)
Chars == {72, 233}
Messages == SeqsUpTo(Chars, MaxMsgLen)
Passwords == { <<>>,
               <<97, 98, 99, 49, 50>>,
               <<115, 101, 99, 114, 101, 116>>,
               <<115, 101, 99, 114, 101, 116, 49>> }

(* HTTP responses *)
NoResponse == [status |-> 0, detail |-> "", message |-> <<>>]
HTTPException(code, text) == [status |-> code, detail |-> text, message |-> <<>>]
Success(msg) == [status |-> 200, detail |-> "success", message |-> msg]
Streaming == [status |-> 200, detail |-> "image/png", message |-> <<>>]

----------------------------------------------------------------------------
Init ==
    /\ carrier \in Carriers
    /\ handler = "none"
    /\ pc = "idle"
    /\ message = <<>>
    /\ password = <<>>
    /\ width = 0
    /\ height = 0
    /\ pixels = <<>>
    /\ encrypted = <<>>
    /\ encrypted_bin = <<>>
    /\ idx = 0
    /\ x = 0
    /\ y = 0
    /\ output = NoImage
    /\ source = "none"
    /\ ex_password = <<>>
    /\ bits = <<>>
    /\ nreads = 0
    /\ encrypted_bytes = <<>>
    /\ response = NoResponse

----------------------------------------------------------------------------
(* POST /api/hide *)

(* validation of the form fields, then the image is opened *)
hide_validate(msg, pw, is_image) ==
    /\ handler = "none"
    /\ handler' = "hide"
    /\ message' = msg
    /\ password' = pw
    /\ IF Len(msg) = 0
       THEN /\ response' = HTTPException(400, "Message cannot be empty")
            /\ pc' = "done"
            /\ UNCHANGED <<width, height, pixels>>
       ELSE IF Len(pw) < MinPasswordLen
       THEN /\ response' = HTTPException(400, "Password must be at least 6 characters")
            /\ pc' = "done"
            /\ UNCHANGED <<width, height, pixels>>
       ELSE IF ~is_image
       THEN /\ response' = HTTPException(400, "File must be an image")
            /\ pc' = "done"
            /\ UNCHANGED <<width, height, pixels>>
       ELSE /\ pixels' = carrier.px
            /\ width' = carrier.size[1]
            /\ height' = carrier.size[2]
            /\ pc' = "encrypt"
            /\ UNCHANGED response
    /\ UNCHANGED <<carrier, encrypted, encrypted_bin, idx, x, y, output>>
    /\ UNCHANGED extract_vars

(* faulty variant: no terminator is appended *)
without_sentinel(bin) == bin

(* bytes_to_bin(encrypted) + "00000000" *)
with_sentinel(bin) == bin \o Zero8

(* key = generate_key(password); encrypted = f.encrypt(message.encode());  *)
(* encrypted_bin = bytes_to_bin(encrypted) + "00000000"                     *)
hide_encrypt(iv) ==
    /\ handler = "hide"
    /\ pc = "encrypt"
    /\ encrypted' = fernet_encrypt(generate_key(password), iv, encode(message))
    /\ encrypted_bin' = with_sentinel(bytes_to_bin(encrypted'))
    /\ pc' = "capacity"
    /\ UNCHANGED <<carrier, handler, message, password, width, height, pixels,
                   idx, x, y, output, response>>
    /\ UNCHANGED extract_vars

(* faulty variant: the comparison is off by one *)
too_large_inclusive(nbits, capacity) == nbits >= capacity

(* faulty variant: the check never rejects *)
too_large_never(nbits, capacity) == FALSE

(* len(encrypted_bin) > capacity *)
too_large(nbits, capacity) == nbits > capacity

(* capacity = width * height * 3; if len(encrypted_bin) > capacity: 400;  *)
(* otherwise idx = 0 and the loops start at (0, 0)                         *)
hide_check_capacity ==
    /\ handler = "hide"
    /\ pc = "capacity"
    /\ IF too_large(Len(encrypted_bin), width * height * Channels)
       THEN /\ response' = HTTPException(400, "Message too large")
            /\ pc' = "done"
            /\ UNCHANGED <<idx, x, y>>
       ELSE /\ pc' = "embed"
            /\ idx' = 0
            /\ x' = 0
            /\ y' = 0
            /\ UNCHANGED response
    /\ UNCHANGED <<carrier, handler, message, password, width, height, pixels,
                   encrypted, encrypted_bin, output>>
    /\ UNCHANGED extract_vars

(* faulty variant: (v << 1) | bit *)
set_lsb_shift(v, bit) == ((2 * v) % 256) + bit

(* (v & ~1) | bit *)
set_lsb(v, bit) == (v - (v % 2)) + bit

(* the three guarded channel writes of one loop body *)
embed_channels(rgb, bin, i) ==
    LET n == Len(bin)
        r == IF i < n THEN set_lsb(rgb[1], bin[i + 1]) ELSE rgb[1]
        i1 == IF i < n THEN i + 1 ELSE i
        g == IF i1 < n THEN set_lsb(rgb[2], bin[i1 + 1]) ELSE rgb[2]
        i2 == IF i1 < n THEN i1 + 1 ELSE i1
        b == IF i2 < n THEN set_lsb(rgb[3], bin[i2 + 1]) ELSE rgb[3]
        i3 == IF i2 < n THEN i2 + 1 ELSE i2
    IN  [rgb |-> <<r, g, b>>, idx |-> i3]

(* for y in range(height): for x in range(width): the successor of (x, y) *)
next_xy(cx, cy, w) == IF cx + 1 < w THEN <<cx + 1, cy>> ELSE <<0, cy + 1>>

(* one iteration of the inner loop that writes pixels[x, y] *)
hide_embed_pixel ==
    /\ handler = "hide"
    /\ pc = "embed"
    /\ idx < Len(encrypted_bin)
    /\ LET e == embed_channels(pixels[<<x, y>>], encrypted_bin, idx)
           n == next_xy(x, y, width)
       IN  /\ pixels' = [pixels EXCEPT ![<<x, y>>] = e.rgb]
           /\ idx' = e.idx
           /\ x' = n[1]
           /\ y' = n[2]
           /\ pc' = IF n[2] < height THEN "embed" ELSE "save"
    /\ UNCHANGED <<carrier, handler, message, password, width, height,
                   encrypted, encrypted_bin, output, response>>
    /\ UNCHANGED extract_vars

(* if idx >= len(encrypted_bin): break  -- leaves the row, not the image *)
hide_break_row ==
    /\ handler = "hide"
    /\ pc = "embed"
    /\ idx >= Len(encrypted_bin)
    /\ x' = 0
    /\ y' = y + 1
    /\ pc' = IF y + 1 < height THEN "embed" ELSE "save"
    /\ UNCHANGED <<carrier, handler, message, password, width, height, pixels,
                   encrypted, encrypted_bin, idx, output, response>>
    /\ UNCHANGED extract_vars

(* img.save(output, format='PNG'); return StreamingResponse(output) *)
hide_save ==
    /\ handler = "hide"
    /\ pc = "save"
    /\ output' = [size |-> <<width, height>>, px |-> pixels]
    /\ response' = Streaming
    /\ pc' = "done"
    /\ UNCHANGED <<carrier, handler, message, password, width, height, pixels,
                   encrypted, encrypted_bin, idx, x, y>>
    /\ UNCHANGED extract_vars

----------------------------------------------------------------------------
(* POST /api/extract *)

(* the upload is the cover image itself, or the PNG a hide returned *)
Uploads ==
    IF handler = "none" THEN {"carrier"}
    ELSE IF handler = "hide" /\ pc = "done" /\ output # NoImage THEN {"stego"}
    ELSE {}

extract_validate(src, pw, is_image) ==
    /\ src \in Uploads
    /\ handler' = "extract"
    /\ source' = src
    /\ ex_password' = pw
    /\ IF Len(pw) = 0
       THEN /\ response' = HTTPException(400, "Password is required")
            /\ pc' = "done"
            /\ UNCHANGED <<width, height, pixels>>
       ELSE IF ~is_image
       THEN /\ response' = HTTPException(400, "File must be an image")
            /\ pc' = "done"
            /\ UNCHANGED <<width, height, pixels>>
       ELSE LET img == IF src = "stego" THEN output ELSE carrier
            IN  /\ pixels' = img.px
                /\ width' = img.size[1]
                /\ height' = img.size[2]
                /\ pc' = "scan"
                /\ response' = NoResponse
    /\ bits' = <<>>
    /\ nreads' = 0
    /\ x' = 0
    /\ y' = 0
    /\ UNCHANGED <<carrier, idx, encrypted_bytes>>
    /\ UNCHANGED hide_vars

(* faulty variant: the scan stops once a whole zero octet has been collected *)
scan_until_sentinel(cx, cy, w, h, collected) ==
    /\ cy < h
    /\ ~ \E j \in 0..(Len(collected) \div ByteBits) - 1 :
            SubSeq(collected, ByteBits * j + 1, ByteBits * j + ByteBits) = Zero8

(* the loop condition of the scan: every pixel of the image is visited *)
scan_continues(cx, cy, w, h, collected) == cy < h

(* r, g, b = pixels[x, y]; bits += str(r & 1) + str(g & 1) + str(b & 1) *)
extract_pixel ==
    /\ handler = "extract"
    /\ pc = "scan"
    /\ scan_continues(x, y, width, height, bits)
    /\ LET rgb == pixels[<<x, y>>]
           n == next_xy(x, y, width)
       IN  /\ bits' = bits \o <<rgb[1] % 2, rgb[2] % 2, rgb[3] % 2>>
           /\ x' = n[1]
           /\ y' = n[2]
    /\ nreads' = nreads + 1
    /\ UNCHANGED <<carrier, handler, pc, width, height, pixels, idx,
                   source, ex_password, encrypted_bytes, response>>
    /\ UNCHANGED hide_vars

(* encrypted_bytes = bin_to_bytes(bits); f.decrypt(...).decode() *)
extract_decode ==
    /\ handler = "extract"
    /\ pc = "scan"
    /\ ~scan_continues(x, y, width, height, bits)
    /\ LET conv == bin_to_bytes(bits)
       IN  IF ~conv.ok
           THEN /\ response' = HTTPException(500, "Error extracting message")
                /\ UNCHANGED encrypted_bytes
           ELSE /\ encrypted_bytes' = conv.val
                /\ LET decrypted == fernet_decrypt(generate_key(ex_password), conv.val)
                       text == IF decrypted.ok THEN decode(decrypted.val) ELSE Raised
                   IN  response' =
                         IF text.ok THEN Success(text.val)
                         ELSE HTTPException(401, "Wrong password or no hidden message found")
    /\ pc' = "done"
    /\ UNCHANGED <<carrier, handler, width, height, pixels, idx, x, y,
                   source, ex_password, bits, nreads>>
    /\ UNCHANGED hide_vars

----------------------------------------------------------------------------
Next ==
    \/ \E msg \in Messages, pw \in Passwords, is_image \in BOOLEAN :
          hide_validate(msg, pw, is_image)
    \/ \E iv \in IVs : hide_encrypt(iv)
    \/ hide_check_capacity
    \/ hide_embed_pixel
    \/ hide_break_row
    \/ hide_save
    \/ \E src \in {"carrier", "stego"}, pw \in Passwords, is_image \in BOOLEAN :
          extract_validate(src, pw, is_image)
    \/ extract_pixel
    \/ extract_decode

Spec == Init /\ [][Next]_vars

----------------------------------------------------------------------------
(* The codec on its own: bin_to_bytes applied to bytes_to_bin(d), the      *)
(* terminator and an arbitrary tail t.  `encrypted` holds d and `bits`     *)
(* holds t; `encrypted_bin` receives the bit string, `encrypted_bytes` the *)
(* bytes read back.                                                        *)

CodecBytes == {0, 1, 65, 128, 255}

CodecInit ==
    /\ carrier = NoImage
    /\ handler = "codec"
    /\ pc = "start"
    /\ message = <<>>
    /\ password = <<>>
    /\ width = 0
    /\ height = 0
    /\ pixels = <<>>
    /\ encrypted \in SeqsUpTo(CodecBytes, MaxDataLen)
    /\ encrypted_bin = <<>>
    /\ idx = 0
    /\ x = 0
    /\ y = 0
    /\ output = NoImage
    /\ source = "none"
    /\ ex_password = <<>>
    /\ bits \in SeqsUpTo({0, 1}, MaxTailLen)
    /\ nreads = 0
    /\ encrypted_bytes = <<>>
    /\ response = NoResponse

codec_round_trip ==
    /\ handler = "codec"
    /\ pc = "start"
    /\ encrypted_bin' = with_sentinel(bytes_to_bin(encrypted)) \o bits
    /\ encrypted_bytes' = bin_to_bytes(encrypted_bin').val
    /\ pc' = "done"
    /\ UNCHANGED <<carrier, handler, message, password, width, height, pixels,
                   encrypted, idx, x, y, output, source, ex_password, bits,
                   nreads, response>>

CodecNext == codec_round_trip

SpecCodec == CodecInit /\ [][CodecNext]_vars

----------------------------------------------------------------------------
(* Vocabulary of the properties *)

(* the channel at traversal index i: rows top to bottom, columns left to   *)
(* right, R, G, B inside a pixel                                           *)
ChannelAt(px, w, i) == px[<<(i \div 3) % w, (i \div 3) \div w>>][(i % 3) + 1]

Pow2(n) == IF n = 0 THEN 1 ELSE IF n = 1 THEN 2 ELSE IF n = 2 THEN 4
           ELSE IF n = 3 THEN 8 ELSE IF n = 4 THEN 16 ELSE IF n = 5 THEN 32
           ELSE IF n = 6 THEN 64 ELSE 128

(* bit i of a byte string, most significant bit of each byte first *)
BitOf(data, i) == (data[(i \div 8) + 1] \div Pow2(7 - (i % 8))) % 2

(* byte j (from 0) of a bit string, packed most significant bit first *)
PackedByte(bin, j) ==
    bin[8 * j + 1] * 128 + bin[8 * j + 2] * 64 + bin[8 * j + 3] * 32
    + bin[8 * j + 4] * 16 + bin[8 * j + 5] * 8 + bin[8 * j + 6] * 4
    + bin[8 * j + 7] * 2 + bin[8 * j + 8]

(* the bytes carried by the first n channel LSBs of an image *)
EmbeddedBytes(px, w, n) ==
    LET lsb == [i \in 1..n |-> ChannelAt(px, w, i - 1) % 2]
    IN  [j \in 1..(n \div 8) |-> PackedByte(lsb, j - 1)]

Capacity == width * height * 3

HideAccepted == handler = "hide" /\ pc = "done" /\ response = Streaming

CapacityExceeded == response = HTTPException(400, "Message too large")

AuthFail == response = HTTPException(401, "Wrong password or no hidden message found")

InternalError == response.status = 500

(* an extract that got past the form validation and ran to its response *)
ExtractFinished == handler = "extract" /\ pc = "done" /\ response.status # 400

(* the longest prefix of d without a zero byte *)
RECURSIVE ZeroFreePrefix(_)
ZeroFreePrefix(d) ==
    IF d = <<>> \/ d[1] = 0 THEN <<>> ELSE <<d[1]>> \o ZeroFreePrefix(Tail(d))

(* the header of the salted, length-prefixed payload format *)
SaltLen == 16
LengthLen == 4
HeaderLen == SaltLen + LengthLen

(* a 4-byte big-endian unsigned field f compared with a small number n,    *)
(* without forming values beyond TLC's 32-bit integers                     *)
be_uint24(f) == (f[2] * 256 + f[3]) * 256 + f[4]
FieldEquals(f, n) == f[1] = 0 /\ be_uint24(f) = n
FieldAtLeast(f, n) == f[1] > 0 \/ be_uint24(f) >= n

----------------------------------------------------------------------------
(* C1 -- round trip: a message hidden with a password of at least 6       *)
(* characters is returned unchanged by an extract of the produced image    *)
(* with the same password, whatever the cover holds behind the payload.    *)
C1_RoundTrip ==
    (ExtractFinished /\ source = "stego" /\ ex_password = password)
        => response = Success(message)

C1_Witness ==
    /\ ExtractFinished /\ source = "stego" /\ ex_password = password
    /\ response = Success(message)
    /\ Len(message) > 0
    /\ Len(encrypted_bin) + 8 <= Capacity
    /\ ChannelAt(carrier.px, width, Len(encrypted_bin)) % 2 = 1

(* C2 -- wrong key rejected: an extract of a produced image with any other *)
(* password ends in the authentication failure, never in a message.        *)
C2_WrongKeyRejected ==
    (ExtractFinished /\ source = "stego" /\ ex_password # password)
        => AuthFail

C2_Witness ==
    /\ ExtractFinished /\ source = "stego" /\ ex_password # password
    /\ Len(ex_password) >= MinPasswordLen
    /\ AuthFail

(* C3 -- capacity boundary: a hide whose fields are valid is rejected as   *)
(* too large exactly when 8 * (bytes to embed, terminator included)        *)
(* exceeds width * height * 3; an exact fit is accepted, one byte more is  *)
(* rejected.                                                               *)
C3_CapacityBoundary ==
    (handler = "hide" /\ pc \in {"embed", "save", "done"} /\ encrypted # <<>>)
        => LET nbytes == Len(encrypted) + 1
           IN  /\ CapacityExceeded <=> 8 * nbytes > Capacity
               /\ 8 * nbytes = Capacity => ~CapacityExceeded
               /\ 8 * (nbytes - 1) = Capacity => CapacityExceeded
               /\ pc = "done" => (CapacityExceeded \/ response = Streaming)

C3_Witness ==
    /\ HideAccepted
    /\ 8 * (Len(encrypted) + 1) = Capacity

(* C4 -- hide is all or nothing: the capacity check precedes the first     *)
(* pixel write; a finished hide is either rejected with the image          *)
(* untouched and no output, or accepted with every payload bit written.    *)
C4_AllOrNothing ==
    /\ (handler = "hide" /\ pc = "done") =>
         \/ /\ response.status = 400
            /\ output = NoImage
            /\ pixels \in {<<>>, carrier.px}
         \/ /\ response = Streaming
            /\ output.px = pixels
            /\ idx = Len(encrypted_bin)
            /\ \A i \in 0..(Len(encrypted_bin) - 1) :
                   ChannelAt(output.px, width, i) % 2 = encrypted_bin[i + 1]
    /\ (handler = "hide" /\ (idx > 0 \/ pixels \notin {<<>>, carrier.px}))
         => (pc \in {"embed", "save", "done"} /\ Len(encrypted_bin) <= Capacity)

C4_Witness ==
    /\ handler = "hide" /\ pc = "done"
    /\ CapacityExceeded
    /\ pixels = carrier.px
    /\ output = NoImage

(* C5 -- locality of mutation: hide changes nothing but the least          *)
(* significant bits of the first N channels in traversal order, N the      *)
(* number of payload bits.                                                 *)
Untouched(px, w, h, n) ==
    \A i \in 0..(w * h * 3 - 1) :
        /\ ChannelAt(px, w, i) \div 2 = ChannelAt(carrier.px, w, i) \div 2
        /\ i >= n => ChannelAt(px, w, i) = ChannelAt(carrier.px, w, i)

C5_Locality ==
    /\ (handler = "hide" /\ pixels # <<>>)
          => Untouched(pixels, width, height, Len(encrypted_bin))
    /\ (handler = "hide" /\ output # NoImage)
          => /\ output.size = carrier.size
             /\ Untouched(output.px, width, height, Len(encrypted_bin))

C5_Witness ==
    /\ HideAccepted
    /\ output.px # carrier.px
    /\ Len(encrypted_bin) % 3 # 0
    /\ Len(encrypted_bin) < width * (height - 1) * 3
    /\ \E i \in Len(encrypted_bin)..(Capacity - 1) :
           ChannelAt(output.px, width, i) \notin {0, 255}

(* C6 -- malformed extraction: an extract of an image that never had a     *)
(* payload embedded, with a non-empty password, ends in the 401 response   *)
(* (wrong password or no hidden message); never in an internal error and   *)
(* never in a message.  "Never had a payload embedded" is read as: the     *)
(* LSBs do not spell a token authentic under the password that is closed   *)
(* by a zero octet or by the end of the image (tokens cannot be forged).   *)
CarriesToken(px, w, h, pw) ==
    \E n \in 2..((w * h * 3) \div 8) :
        LET b == EmbeddedBytes(px, w, 8 * n)
        IN  /\ \A k \in 1..n : b[k] # 0
            /\ fernet_decrypt(generate_key(pw), b).ok
            /\ \/ 8 * n = w * h * 3
               \/ /\ 8 * n + 8 <= w * h * 3
                  /\ EmbeddedBytes(px, w, 8 * n + 8)[n + 1] = 0

C6_MalformedExtraction ==
    (/\ ExtractFinished
     /\ source = "carrier"
     /\ ~CarriesToken(carrier.px, width, height, ex_password))
        => (AuthFail /\ ~InternalError /\ response.status # 200)

C6_Witness ==
    /\ ExtractFinished /\ source = "carrier"
    /\ ~CarriesToken(carrier.px, width, height, ex_password)
    /\ Len(bits) % 8 # 0
    /\ Len(encrypted_bytes) >= 2
    /\ \E k \in 1..Len(bits) : bits[k] = 0
    /\ AuthFail

C8_BitPlacement ==
    /\ HideAccepted =>
         \A i \in 0..(8 * (Len(encrypted) + 1) - 1) :
             output.px[<<(i \div 3) % width, (i \div 3) \div width>>][(i % 3) + 1] % 2
                = BitOf(encrypted \o <<0>>, i)
    /\ (handler = "extract" /\ pc \in {"scan", "done"} /\ response.status # 400) =>
         /\ Len(bits) = 3 * nreads
         /\ \A i \in 0..(Len(bits) - 1) :
                bits[i + 1] =
                  pixels[<<(i \div 3) % width, (i \div 3) \div width>>][(i % 3) + 1] % 2
    /\ ExtractFinished =>
         \A j \in 0..(Len(encrypted_bytes) - 1) :
             8 * j + 8 <= Len(bits) => encrypted_bytes[j + 1] = PackedByte(bits, j)

C8_Witness ==
    /\ ExtractFinished /\ source = "stego"
    /\ width > 1 /\ height > 1 /\ width # height
    /\ Len(encrypted_bytes) = Len(encrypted)
    /\ encrypted_bytes = encrypted

C10_SentinelCodec ==
    (handler = "codec" /\ pc = "done") =>
        /\ encrypted_bytes = ZeroFreePrefix(encrypted)
        /\ (encrypted_bytes = encrypted) <=> (\A k \in 1..Len(encrypted) : encrypted[k] # 0)
        /\ \A k \in 1..Len(encrypted) :
              (encrypted[k] = 0 /\ \A m \in 1..(k - 1) : encrypted[m] # 0)
                 => Len(encrypted_bytes) = k - 1

C10_Witness ==
    /\ handler = "codec" /\ pc = "done"
    /\ Len(encrypted) = 2
    /\ encrypted[2] = 0
    /\ encrypted_bytes = <<encrypted[1]>>
    /\ Len(bits) = 3

====
